---- MODULE Spec2Model ----
(***************************************************************************)
(* A model of my-redis-rs: the storage engine of src/src/redis.rs          *)
(* (Redis::handle_command over an evmap read/write handle pair guarded by  *)
(* a tokio Mutex), the command grammar of src/src/command.rs, the RESP     *)
(* codec of src/src/protocol.rs and the connection loop Redis::handler.    *)
(*                                                                         *)
(* Strings are sequences of one-character strings, Option<T> is a sequence *)
(* of length at most one (<<>> is None, <<x>> is Some(x)).                 *)
(***************************************************************************)
EXTENDS Integers, Sequences, FiniteSets, TLC

\* ------------------------------------------------------------------ bounds
\* Number of connections (tasks running Redis::handler / handle_command).
NConns == 2
\* Commands dispatched over a whole run.
MaxCmds == 3
\* The wall clock runs over 0..MaxClock milliseconds.
MaxClock == 1
\* The largest TTL argument a SET is given.
MaxTtl == 0

\* Requests the clients send over a whole run of the connection handlers.
MaxReqs == 2

\* Seconds to milliseconds (redis.rs: unix_ms + s * 1000, s * 1000).
MsPerSec == 1000

Conns == 1..NConns
NoConn == 0
Keys == { <<"k">>, <<"j">> }
Vals == { <<"a">>, <<"b">> }
TtlVals == 0..MaxTtl

None == <<>>
Some(x) == <<x>>
IsSome(o) == o /= <<>>
Unwrap(o) == o[1]

\* ------------------------------------------------------------ ProtocolData
SimpleString(s) == [t |-> "SimpleString", s |-> s]
SimpleError(s) == [t |-> "SimpleError", s |-> s]
BulkString(s) == [t |-> "BulkString", s |-> s]
Null == [t |-> "Null"]
Integer(n) == [t |-> "Integer", n |-> n]
Array(v) == [t |-> "Array", v |-> v]
Boolean(b) == [t |-> "Boolean", b |-> b]
Double(x) == [t |-> "Double", x |-> x]
BigNums(s) == [t |-> "BigNums", s |-> s]
Verbatim(enc, data) == [t |-> "Verbatim", enc |-> enc, data |-> data]
Map(v) == [t |-> "Map", v |-> v]
Attributes(v) == [t |-> "Attributes", v |-> v]
\* An entry of a map or of attributes, the tuple (ProtocolData, ProtocolData).
Pair(k, v) == [key |-> k, val |-> v]
Set(v) == [t |-> "Set", v |-> v]
Push(v) == [t |-> "Push", v |-> v]
NoReply == [t |-> "NoReply"]
PONG == <<"P", "O", "N", "G">>
OK == <<"O", "K">>

\* ---------------------------------------------------------------- Command
Ping == [name |-> "PING"]
Echo(s) == [name |-> "ECHO", s |-> s]
Get(k) == [name |-> "GET", key |-> k]
SetOpts(k, v, c, r, e) ==
    [name |-> "SET", key |-> k, val |-> v, cond |-> c, ret_old |-> r, expire |-> e]
NoCmd == [name |-> "NONE"]

EX(s) == [kind |-> "EX", t |-> s]
PX(ms) == [kind |-> "PX", t |-> ms]
EXAT(s) == [kind |-> "EXAT", t |-> s]
PXAT(ms) == [kind |-> "PXAT", t |-> ms]
KEEPTTL == [kind |-> "KEEPTTL", t |-> 0]

\* The SETs the connections issue: every combination of value, condition,
\* return-previous flag and one of no expiration, KEEPTTL and PXAT on key k, and
\* the plain SETs on key j.
Expires == {KEEPTTL} \cup { PXAT(n) : n \in TtlVals }
Conds == { None, Some("NX"), Some("XX") }
SetCmds ==
    { SetOpts(<<"k">>, v, c, r, e) :
        v \in Vals, c \in Conds, r \in BOOLEAN,
        e \in {None} \cup { Some(x) : x \in Expires } }
    \cup { SetOpts(<<"j">>, v, None, FALSE, None) : v \in Vals }
Cmds == {Ping} \cup { Echo(v) : v \in Vals } \cup { Get(k) : k \in Keys } \cup SetCmds

\* ------------------------------------------------------------- characters
CR == "\r"
LF == "\n"
CRLF == << CR, LF >>
Digits == << "0", "1", "2", "3", "4", "5", "6", "7", "8", "9" >>
Lowers ==
    << "a", "b", "c", "d", "e", "f", "g", "h", "i", "j", "k", "l", "m",
       "n", "o", "p", "q", "r", "s", "t", "u", "v", "w", "x", "y", "z" >>
Uppers ==
    << "A", "B", "C", "D", "E", "F", "G", "H", "I", "J", "K", "L", "M",
       "N", "O", "P", "Q", "R", "S", "T", "U", "V", "W", "X", "Y", "Z" >>

\* The index of ch in the table tbl, 0 when it is not there.
IndexIn(tbl, ch) ==
    IF \E i \in 1..Len(tbl) : tbl[i] = ch
    THEN CHOOSE i \in 1..Len(tbl) : tbl[i] = ch
    ELSE 0

IsDigit(ch) == IndexIn(Digits, ch) > 0
DigitVal(ch) == IndexIn(Digits, ch) - 1

\* str::to_uppercase on the letters a..z; the other characters of the model's
\* alphabet have no case.
to_uppercase(s) ==
    [i \in 1..Len(s) |->
        IF IndexIn(Lowers, s[i]) > 0 THEN Uppers[IndexIn(Lowers, s[i])] ELSE s[i]]

Drop(s, n) == SubSeq(s, n + 1, Len(s))
Take(s, n) == SubSeq(s, 1, n)

\* The value of a string of decimal digits.
RECURSIVE DigitsVal(_)
DigitsVal(s) ==
    IF s = <<>> THEN 0
    ELSE 10 * DigitsVal(Take(s, Len(s) - 1)) + DigitVal(s[Len(s)])

\* The decimal digits of a natural number (format!("{}", n)).
RECURSIVE Dec(_)
Dec(n) == IF n < 10 THEN << Digits[n + 1] >> ELSE Dec(n \div 10) \o << Digits[(n % 10) + 1] >>

\* u64::from_str_radix(x, 10) and usize::from_str_radix(x, 10): an optional
\* "+" and at least one digit; None for anything else. The strings of the model
\* stay far below the width of the type.
unsigned_from_str_radix(x) ==
    LET d == IF x /= <<>> /\ x[1] = "+" THEN Drop(x, 1) ELSE x IN
    IF d /= <<>> /\ \A i \in 1..Len(d) : IsDigit(d[i])
    THEN Some(DigitsVal(d))
    ELSE None

\* i64::from_str_radix(x, 10): an optional "+" or "-" and at least one digit.
i64_from_str_radix(x) ==
    LET neg == x /= <<>> /\ x[1] = "-"
        d == IF x /= <<>> /\ x[1] \in {"+", "-"} THEN Drop(x, 1) ELSE x
    IN
    IF d /= <<>> /\ \A i \in 1..Len(d) : IsDigit(d[i])
    THEN Some(IF neg THEN 0 - DigitsVal(d) ELSE DigitsVal(d))
    ELSE None

\* f64::from_str(x): an optional sign, then inf, infinity or nan in any letter
\* case, or digits with at most one "." and at least one digit, optionally
\* followed by e, an optional sign and at least one digit. The number is kept as
\* its text in upper case; None for anything else.
IsMantissa(m) ==
    /\ \A i \in 1..Len(m) : IsDigit(m[i]) \/ m[i] = "."
    /\ Cardinality({ i \in 1..Len(m) : m[i] = "." }) <= 1
    /\ \E i \in 1..Len(m) : IsDigit(m[i])
IsExponent(e) ==
    LET d == IF e /= <<>> /\ e[1] \in {"+", "-"} THEN Drop(e, 1) ELSE e IN
    d /= <<>> /\ \A i \in 1..Len(d) : IsDigit(d[i])
f64_from_str(x) ==
    LET u == to_uppercase(x)
        body == IF u /= <<>> /\ u[1] \in {"+", "-"} THEN Drop(u, 1) ELSE u
        es == { i \in 1..Len(body) : body[i] = "E" }
        named == body \in { << "I", "N", "F" >>, << "N", "A", "N" >>,
                            << "I", "N", "F", "I", "N", "I", "T", "Y" >> }
        plain == IsMantissa(body)
        scientific ==
            /\ Cardinality(es) = 1
            /\ LET i == CHOOSE j \in es : TRUE IN
               IsMantissa(Take(body, i - 1)) /\ IsExponent(Drop(body, i))
    IN IF named \/ plain \/ scientific THEN Some(u) ELSE None

\* ------------------------------------------------- nom, streaming flavour
\* An IResult: Ok((rest, v)), Err(Incomplete), Err(Error). A panic of the
\* decoding thread (unimplemented!, unreachable!, an index out of bounds) is a
\* fourth outcome that passes through every combinator.
POk(rest, v) == [r |-> "Ok", rest |-> rest, v |-> v]
PIncomplete == [r |-> "Incomplete"]
PError == [r |-> "Error"]
PPanic == [r |-> "Panic"]
\* The String a call returns when it does not panic.
Returns(v) == [r |-> "Ok", v |-> v]

\* The first index at which pat occurs in s, 0 when it does not.
find_substring(s, pat) ==
    LET hits == { i \in 1..(Len(s) - Len(pat) + 1) : SubSeq(s, i, i + Len(pat) - 1) = pat }
    IN IF hits = {} THEN 0 ELSE CHOOSE i \in hits : \A j \in hits : i <= j

\* bytes::streaming::take_until(pat): the input up to the first pat; Incomplete
\* when pat is not in the input.
split_at(s, i) == IF i = 0 THEN PIncomplete ELSE POk(Drop(s, i - 1), Take(s, i - 1))
take_until(s, pat) == split_at(s, find_substring(s, pat))

\* bytes::streaming::tag(t): Error when the input differs from t on their common
\* prefix, Incomplete when the input is a proper prefix of t.
tag(s, t) ==
    LET n == IF Len(s) < Len(t) THEN Len(s) ELSE Len(t) IN
    IF Take(s, n) /= Take(t, n) THEN PError
    ELSE IF Len(s) < Len(t) THEN PIncomplete
    ELSE POk(Drop(s, Len(t)), t)

\* character::streaming::one_of(set): Incomplete on the empty input.
one_of(s, set) ==
    IF s = <<>> THEN PIncomplete
    ELSE IF s[1] \in set THEN POk(Drop(s, 1), s[1])
    ELSE PError

\* (take_until("\r\n"), tag("\r\n")) keeping the first: the line without its end.
keep(v, b) == IF b.r /= "Ok" THEN b ELSE POk(b.rest, v)
line_end(a) == IF a.r /= "Ok" THEN a ELSE keep(a.v, tag(a.rest, CRLF))

\* protocol.rs:61-63: take_until("\r\n") then tag("\r\n").
parse_line(s) == line_end(take_until(s, CRLF))

\* parse_line on what the parser before it left.
line_after(a) == IF a.r /= "Ok" THEN a ELSE parse_line(a.rest)

\* (tag(sigil), parse_line): the line after a one-character sigil.
tagged_line(s, sigil) == line_after(tag(s, << sigil >>))

\* (tag(sigil), parse_line, parse_line): the second line after the sigil.
tagged_two_lines(s, sigil) == line_after(tagged_line(s, sigil))

\* --------------------------------------------------- protocol.rs: decoding
\* In each parser, map is combinator::map with the parser's closure, and map_res
\* is combinator::map_res: a closure that fails turns the Ok into Err(Error).
ok_or_error(rest, o) == IF IsSome(o) THEN POk(rest, Unwrap(o)) ELSE PError

parse_simple_string(s) ==
    LET map(p) == IF p.r = "Ok" THEN POk(p.rest, SimpleString(p.v)) ELSE p
    IN map(tagged_line(s, "+"))

parse_simple_error(s) ==
    LET map(p) == IF p.r = "Ok" THEN POk(p.rest, SimpleError(p.v)) ELSE p
    IN map(tagged_line(s, "-"))

parse_integer(s) ==
    LET integer(o) == IF IsSome(o) THEN Some(Integer(Unwrap(o))) ELSE None
        map_res(p) ==
            IF p.r /= "Ok" THEN p
            ELSE ok_or_error(p.rest, integer(i64_from_str_radix(p.v)))
    IN map_res(tagged_line(s, ":"))

\* The first line after the sigil is read and dropped; the payload is the line
\* after it.
parse_bulk_string(s) ==
    LET map(p) == IF p.r = "Ok" THEN POk(p.rest, BulkString(p.v)) ELSE p
    IN map(tagged_two_lines(s, "$"))

parse_null(s) ==
    LET crlf(a) == IF a.r /= "Ok" THEN a ELSE tag(a.rest, CRLF)
        map(p) == IF p.r = "Ok" THEN POk(p.rest, Null) ELSE p
    IN map(crlf(tag(s, << "_" >>)))

\* one_of("tf") lets only t and f reach the closure; nothing after the letter is
\* consumed.
parse_boolean(s) ==
    LET tf(a) == IF a.r /= "Ok" THEN a ELSE one_of(a.rest, {"t", "f"})
        map_res(p) == IF p.r = "Ok" THEN POk(p.rest, Boolean(p.v = "t")) ELSE p
    IN map_res(tf(tag(s, << "#" >>)))

parse_doubles(s) ==
    LET double(o) == IF IsSome(o) THEN Some(Double(Unwrap(o))) ELSE None
        map_res(p) ==
            IF p.r /= "Ok" THEN p
            ELSE ok_or_error(p.rest, double(f64_from_str(p.v)))
    IN map_res(tagged_line(s, ","))

parse_bignum(s) ==
    LET map(p) == IF p.r = "Ok" THEN POk(p.rest, BigNums(p.v)) ELSE p
    IN map(tagged_line(s, "("))

\* A bulk error decodes to ProtocolData::BulkString.
parse_bulk_error(s) ==
    LET map(p) == IF p.r = "Ok" THEN POk(p.rest, BulkString(p.v)) ELSE p
    IN map(tagged_two_lines(s, "!"))

\* (tag("="), parse_line, take_until(":"), tag(":"), parse_line): the first line
\* is dropped, the encoding is what precedes the colon, the data the rest of
\* the line.
parse_verbatim(s) ==
    LET data(enc, p) == IF p.r = "Ok" THEN POk(p.rest, Verbatim(enc, p.v)) ELSE p
        colon(e) == IF e.r /= "Ok" THEN e ELSE data(e.v, line_after(tag(e.rest, << ":" >>)))
        encoding(a) == IF a.r /= "Ok" THEN a ELSE colon(take_until(a.rest, << ":" >>))
    IN encoding(tagged_line(s, "="))

RECURSIVE parse_protocol(_)
RECURSIVE array_elems(_, _, _)
RECURSIVE map_entries(_, _, _, _)

\* protocol.rs:95-102: the loop of parse_array_like, n elements to go from curr.
array_elems(curr, n, prots) ==
    IF n = 0 THEN POk(curr, prots)
    ELSE LET push(p) == IF p.r /= "Ok" THEN p
                        ELSE array_elems(p.rest, n - 1, Append(prots, p.v))
         IN push(parse_protocol(curr))

\* protocol.rs:93-103
parse_array_like(s) ==
    LET elems(len) == IF len.r /= "Ok" THEN len ELSE array_elems(len.rest, len.v, <<>>)
        map_res(p) ==
            IF p.r /= "Ok" THEN p ELSE ok_or_error(p.rest, unsigned_from_str_radix(p.v))
    IN elems(map_res(parse_line(s)))

\* protocol.rs:156-165: the loop of parse_map_like, n entries to go. Every
\* iteration decodes its pair from s, the input after the count line, not from
\* curr.
map_entries(s, curr, n, entries) ==
    IF n = 0 THEN POk(curr, entries)
    ELSE LET push(k, v) == IF v.r /= "Ok" THEN v
                           ELSE map_entries(s, v.rest, n - 1, Append(entries, Pair(k.v, v.v)))
             value(k) == IF k.r /= "Ok" THEN k ELSE push(k, parse_protocol(k.rest))
         IN value(parse_protocol(s))

\* protocol.rs:154-166
parse_map_like(s) ==
    LET pairs(entries) ==
            IF entries.r /= "Ok" THEN entries
            ELSE map_entries(entries.rest, entries.rest, entries.v, <<>>)
        map_res(p) ==
            IF p.r /= "Ok" THEN p ELSE ok_or_error(p.rest, unsigned_from_str_radix(p.v))
    IN pairs(map_res(parse_line(s)))

\* parse_array_like and parse_map_like on what tag(sigil) left.
array_like_after(a) == IF a.r /= "Ok" THEN a ELSE parse_array_like(a.rest)
map_like_after(a) == IF a.r /= "Ok" THEN a ELSE parse_map_like(a.rest)

parse_array(s) ==
    LET map(p) == IF p.r = "Ok" THEN POk(p.rest, Array(p.v)) ELSE p
    IN map(array_like_after(tag(s, << "*" >>)))

parse_map(s) ==
    LET map(p) == IF p.r = "Ok" THEN POk(p.rest, Map(p.v)) ELSE p
    IN map(map_like_after(tag(s, << "%" >>)))

parse_attributes(s) ==
    LET map(p) == IF p.r = "Ok" THEN POk(p.rest, Attributes(p.v)) ELSE p
    IN map(map_like_after(tag(s, << "|" >>)))

parse_set(s) ==
    LET map(p) == IF p.r = "Ok" THEN POk(p.rest, Set(p.v)) ELSE p
    IN map(array_like_after(tag(s, << "~" >>)))

parse_push(s) ==
    LET map(p) == IF p.r = "Ok" THEN POk(p.rest, Push(p.v)) ELSE p
    IN map(array_like_after(tag(s, << ">" >>)))

\* protocol.rs:30-49: peek(anychar) is Incomplete on the empty input; a first
\* character that is no sigil reaches unimplemented!().
parse_protocol(s) ==
    IF s = <<>> THEN PIncomplete
    ELSE CASE s[1] = "+" -> parse_simple_string(s)
           [] s[1] = "-" -> parse_simple_error(s)
           [] s[1] = ":" -> parse_integer(s)
           [] s[1] = "$" -> parse_bulk_string(s)
           [] s[1] = "*" -> parse_array(s)
           [] s[1] = "_" -> parse_null(s)
           [] s[1] = "#" -> parse_boolean(s)
           [] s[1] = "," -> parse_doubles(s)
           [] s[1] = "(" -> parse_bignum(s)
           [] s[1] = "!" -> parse_bulk_error(s)
           [] s[1] = "=" -> parse_verbatim(s)
           [] s[1] = "%" -> parse_map(s)
           [] s[1] = "|" -> parse_attributes(s)
           [] s[1] = "~" -> parse_set(s)
           [] s[1] = ">" -> parse_push(s)
           [] OTHER -> PPanic

\* protocol.rs:51-59: the reply bytes; the variants past BulkString reach
\* unimplemented!().
encode_protocol(prot) ==
    CASE prot.t = "SimpleString" -> Returns(<< "+" >> \o prot.s \o CRLF)
      [] prot.t = "SimpleError" -> Returns(<< "-" >> \o prot.s \o CRLF)
      [] prot.t = "Integer" ->
            Returns(<< ":" >> \o (IF prot.n < 0 THEN << "-" >> \o Dec(0 - prot.n) ELSE Dec(prot.n)) \o CRLF)
      [] prot.t = "BulkString" ->
            Returns(<< "$" >> \o Dec(Len(prot.s)) \o CRLF \o prot.s \o CRLF)
      [] OTHER -> PPanic

\* ------------------------------------------------- command.rs: the grammar
T_PING == << "P", "I", "N", "G" >>
T_ECHO == << "E", "C", "H", "O" >>
T_GET == << "G", "E", "T" >>
T_SET == << "S", "E", "T" >>
T_NX == << "N", "X" >>
T_XX == << "X", "X" >>
T_EX == << "E", "X" >>
T_PX == << "P", "X" >>
T_EXAT == << "E", "X", "A", "T" >>
T_PXAT == << "P", "X", "A", "T" >>
T_KEEPTTL == << "K", "E", "E", "P", "T", "T", "L" >>

\* A Result<Command, ParseCommandError>; PPanic when the call panics.
COk(v) == [r |-> "Ok", v |-> v]
CErr(e) == [r |-> "Err", e |-> e]
UnrecognizedCommand(name) == [kind |-> "UnrecognizedCommand", name |-> name]
WrongProtocolDataType == [kind |-> "WrongProtocolDataType"]
WrongArguments == [kind |-> "WrongArguments"]

\* The Display of a ParseCommandError (command.rs:41-46).
to_string(e) ==
    CASE e.kind = "UnrecognizedCommand" ->
            << "U", "n", "r", "e", "c", "o", "g", "n", "i", "z", "e", "d", " ", "c", "o", "m", "m", "a", "n", "d", " ", "'" >> \o e.name \o << "'" >>
      [] e.kind = "WrongProtocolDataType" ->
            << "W", "r", "o", "n", "g", " ", "d", "a", "t", "a", " ", "t", "y", "p", "e" >>
      [] e.kind = "WrongArguments" ->
            << "W", "r", "o", "n", "g", " ", "a", "r", "g", "u", "m", "e", "n", "t", " ", "t", "y", "p", "e", " ", "o", "r", " ", "n", "u", "m", "b", "e", "r" >>

\* command.rs:49-70: the upper-cased name and the arguments. v[0] on an array of
\* no element is an index out of bounds.
parse_command_like(prot) ==
    IF prot.t /= "Array" THEN CErr(WrongProtocolDataType)
    ELSE IF prot.v = <<>> THEN PPanic
    ELSE IF prot.v[1].t /= "BulkString" THEN CErr(WrongProtocolDataType)
    ELSE IF \E i \in 2..Len(prot.v) : prot.v[i].t /= "BulkString"
         THEN CErr(WrongProtocolDataType)
         ELSE COk([cmd |-> to_uppercase(prot.v[1].s),
                   args |-> [i \in 1..(Len(prot.v) - 1) |-> prot.v[i + 1].s]])

\* command.rs:96-132: the scan of the SET options from args[idx] (idx counts
\* from 0 as in the source). The token is matched in upper case; the inner
\* matches at 104-108 and 120-126 match it as given.
RECURSIVE set_options(_, _, _)
set_options(args, idx, opts) ==
    IF ~(idx < Len(args)) THEN COk(opts)
    ELSE
    LET raw == args[idx + 1]
        up == to_uppercase(raw)
    IN
    CASE up = T_GET -> set_options(args, idx + 1, [opts EXCEPT !.ret_old = TRUE])
      [] up \in {T_XX, T_NX} /\ opts.cond = None ->
            IF raw = T_XX THEN set_options(args, idx + 1, [opts EXCEPT !.cond = Some("XX")])
            ELSE IF raw = T_NX THEN set_options(args, idx + 1, [opts EXCEPT !.cond = Some("NX")])
            ELSE PPanic
      [] up = T_KEEPTTL /\ opts.expire = None ->
            set_options(args, idx + 1, [opts EXCEPT !.expire = Some(KEEPTTL)])
      [] up \in {T_EX, T_PX, T_EXAT, T_PXAT} /\ opts.expire = None /\ idx + 1 < Len(args) ->
            LET tval == unsigned_from_str_radix(args[idx + 2]) IN
            IF tval = None THEN CErr(WrongArguments)
            ELSE IF raw = T_EX
                 THEN set_options(args, idx + 2, [opts EXCEPT !.expire = Some(EX(Unwrap(tval)))])
            ELSE IF raw = T_PX
                 THEN set_options(args, idx + 2, [opts EXCEPT !.expire = Some(PX(Unwrap(tval)))])
            ELSE IF raw = T_EXAT
                 THEN set_options(args, idx + 2, [opts EXCEPT !.expire = Some(EXAT(Unwrap(tval)))])
            ELSE IF raw = T_PXAT
                 THEN set_options(args, idx + 2, [opts EXCEPT !.expire = Some(PXAT(Unwrap(tval)))])
            ELSE PPanic
      [] OTHER -> CErr(WrongArguments)

\* parse_command with an ECHO that takes one argument or more.
parse_command_echo_many(prot) ==
    LET like == parse_command_like(prot) IN
    IF like.r /= "Ok" THEN like
    ELSE
    LET name == like.v.cmd
        args == like.v.args
    IN
    CASE name = T_PING -> IF args = <<>> THEN COk(Ping) ELSE CErr(WrongArguments)
      [] name = T_ECHO -> IF Len(args) >= 1 THEN COk(Echo(args[1])) ELSE CErr(WrongArguments)
      [] name = T_GET -> IF Len(args) = 1 THEN COk(Get(args[1])) ELSE CErr(WrongArguments)
      [] name = T_SET ->
            IF Len(args) >= 2
            THEN set_options(args, 2, SetOpts(args[1], args[2], None, FALSE, None))
            ELSE CErr(WrongArguments)
      [] OTHER -> CErr(UnrecognizedCommand(name))

\* command.rs:72-138
parse_command(prot) ==
    LET like == parse_command_like(prot) IN
    IF like.r /= "Ok" THEN like
    ELSE
    LET name == like.v.cmd
        args == like.v.args
    IN
    CASE name = T_PING -> IF args = <<>> THEN COk(Ping) ELSE CErr(WrongArguments)
      [] name = T_ECHO -> IF Len(args) = 1 THEN COk(Echo(args[1])) ELSE CErr(WrongArguments)
      [] name = T_GET -> IF Len(args) = 1 THEN COk(Get(args[1])) ELSE CErr(WrongArguments)
      [] name = T_SET ->
            IF Len(args) >= 2
            THEN set_options(args, 2, SetOpts(args[1], args[2], None, FALSE, None))
            ELSE CErr(WrongArguments)
      [] OTHER -> CErr(UnrecognizedCommand(name))

\* ------------------------------------------------------------------ Entry
Entry(v, e) == [val |-> v, expire |-> e]
NoEntry == [val |-> <<>>, expire |-> None]

\* expires with the comparison widened to v <= curr_ms.
expires_le(e, curr_ms) == IsSome(e.expire) /\ Unwrap(e.expire) <= curr_ms

\* Entry::expires: self.expire.map_or(false, |v| v < curr_ms)
expires(e, curr_ms) == IsSome(e.expire) /\ Unwrap(e.expire) < curr_ms

\* ------------------------------------------------- the evmap value bag
\* evmap keeps, per key, a bag of values (a SmallVec below its bag threshold).
\* get_one: the first value of the key's bag, None when the bag is empty.
get_one(tbl, k) == IF tbl[k] = <<>> THEN None ELSE Some(tbl[k][1])

RECURSIVE position(_, _, _)
position(bag, e, i) ==
    IF i > Len(bag) THEN 0
    ELSE IF bag[i] = e THEN i
    ELSE position(bag, e, i + 1)

\* WriteHandle::remove(k, v): swap_remove of the first value equal to v, if any.
swap_remove(bag, e) ==
    LET i == position(bag, e, 1) IN
    IF i = 0 THEN bag
    ELSE IF i = Len(bag) THEN SubSeq(bag, 1, Len(bag) - 1)
    ELSE [j \in 1..(Len(bag) - 1) |-> IF j = i THEN bag[Len(bag)] ELSE bag[j]]

\* guard.remove(key, e).refresh(): the removal, published to the readers.
remove_refresh(tbl, k, e) == [tbl EXCEPT ![k] = swap_remove(tbl[k], e)]

\* guard.insert(key, entry).refresh(): the value pushed on the key's bag, published.
insert_refresh(tbl, k, e) == [tbl EXCEPT ![k] = Append(tbl[k], e)]

\* ------------------------------------------------------------------ state
VARIABLES
    table,      \* the map as the read handles see it: key -> bag of Entry
    writer,     \* holder of Mutex<WriteHandle>: a connection, or NoConn
    clock,      \* SystemTime::now() in ms since the epoch
    issued,     \* commands dispatched so far
    pc,         \* each connection's position in handle_command
    cmd,        \* the command a connection is executing
    old_ent,    \* handle_command's old_ent
    unix_ms,    \* handle_command's unix_ms
    entry,      \* handle_command's entry
    reply,      \* the value handle_command returns
    seen,       \* history: the entry read at redis.rs:72, kept as read
    did,        \* history: what the call published (evicted, wrote) and, for a
                \* SET with NX or XX, whether no other SET on its key ran beside
                \* it (alone) and whether the key had an entry after its expiry
                \* check (present)
    obs,        \* history: what a GET saw when it read
    lastPub,    \* history: per key, the value of the last published write
    conn,       \* each handler's state: "Reading", "Closed", or "Panicked" when
                \* its task has panicked
    buf,        \* the handler's buffer, buf[..len]
    wire,       \* the chunks a client has sent that the handler has not read yet
    out,        \* the replies the handler has written to its stream, in order
    req,        \* history: the value decoded from the buffer, while it is handled
    fault,      \* history: why the handler's loop ended
    arg,        \* the input a function of the codec, the grammar or the engine is
                \* applied to on its own
    res         \* what that function returned

\* The variables of the connection handlers.
hvars == << conn, buf, wire, out, req, fault >>

\* The variables of a function applied on its own.
fvars == << arg, res >>

vars ==
    << table, writer, clock, issued, pc, cmd, old_ent, unix_ms, entry, reply,
       seen, did, obs, lastPub, conn, buf, wire, out, req, fault, arg, res >>

NoArg == [kind |-> "none"]
NoRes == [kind |-> "none"]

NoReq == [t |-> "NoReq"]

NoDid == [evicted |-> FALSE, wrote |-> FALSE, alone |-> TRUE, present |-> FALSE]
NoObs == [head |-> None, now |-> 0, quiet |-> FALSE, last |-> None, during |-> {}]

\* The server after Redis::new, no connection having sent anything.
InitServer ==
    /\ table = [k \in Keys |-> <<>>]
    /\ writer = NoConn
    /\ clock = 0
    /\ issued = 0
    /\ pc = [c \in Conns |-> "idle"]
    /\ cmd = [c \in Conns |-> NoCmd]
    /\ old_ent = [c \in Conns |-> None]
    /\ unix_ms = [c \in Conns |-> 0]
    /\ entry = [c \in Conns |-> NoEntry]
    /\ reply = [c \in Conns |-> NoReply]
    /\ seen = [c \in Conns |-> None]
    /\ did = [c \in Conns |-> NoDid]
    /\ obs = [c \in Conns |-> NoObs]
    /\ lastPub = [k \in Keys |-> None]
    /\ conn = [c \in Conns |-> "Reading"]
    /\ buf = [c \in Conns |-> <<>>]
    /\ wire = [c \in Conns |-> <<>>]
    /\ out = [c \in Conns |-> <<>>]
    /\ req = [c \in Conns |-> NoReq]
    /\ fault = [c \in Conns |-> "none"]

Init ==
    /\ InitServer
    /\ arg = NoArg
    /\ res = NoRes

\* ------------------------------------------------- handle_command: pure parts

\* redis.rs:91-97: the condition is unmet.
CondUnmet(cond, present) ==
    \/ cond = Some("NX") /\ present
    \/ cond = Some("XX") /\ ~present

\* NewEntry with KEEPTTL and the missing option exchanged: KEEPTTL clears the
\* expiration and no option carries the old one forward.
NewEntry_swapped(opts, old, now) ==
    LET kept == IF IsSome(old) THEN Unwrap(old).expire ELSE None
        exp ==
        IF opts.expire = None THEN kept
        ELSE LET x == Unwrap(opts.expire) IN
             CASE x.kind = "EX" -> Some(now + x.t * MsPerSec)
               [] x.kind = "PX" -> Some(now + x.t)
               [] x.kind = "EXAT" -> Some(x.t * MsPerSec)
               [] x.kind = "PXAT" -> Some(x.t)
               [] x.kind = "KEEPTTL" -> None
    IN Entry(opts.val, exp)

\* redis.rs:99-108: the new entry and its expiration.
NewEntry(opts, old, now) ==
    LET exp ==
        IF opts.expire = None THEN None
        ELSE LET x == Unwrap(opts.expire) IN
             CASE x.kind = "EX" -> Some(now + x.t * MsPerSec)
               [] x.kind = "PX" -> Some(now + x.t)
               [] x.kind = "EXAT" -> Some(x.t * MsPerSec)
               [] x.kind = "PXAT" -> Some(x.t)
               [] x.kind = "KEEPTTL" -> IF IsSome(old) THEN Unwrap(old).expire ELSE None
    IN Entry(opts.val, exp)

\* SetReply answering with the value just written instead of the old one.
SetReply_new(opts, old) ==
    IF opts.ret_old
    THEN BulkString(opts.val)
    ELSE SimpleString(OK)

\* redis.rs:116-122: the reply of a SET that published.
SetReply(opts, old) ==
    IF opts.ret_old
    THEN IF IsSome(old) THEN BulkString(Unwrap(old).val) ELSE Null
    ELSE SimpleString(OK)

\* GetReply with an expiry check against the clock, as SET makes one.
GetReply_expiring(tbl, k) ==
    LET g == get_one(tbl, k) IN
    IF IsSome(g) /\ ~expires(Unwrap(g), clock) THEN BulkString(Unwrap(g).val) ELSE Null

\* redis.rs:64-67: the reply of GET from what the read handle returns.
GetReply(tbl, k) ==
    LET g == get_one(tbl, k) IN
    IF IsSome(g) THEN BulkString(Unwrap(g).val) ELSE Null

\* m is a SET with NX or XX.
Conditional(m) == m.name = "SET" /\ m.cond /= None

\* A SET on key k by connection c is between its dispatch and its return.
SetInFlight(c, k) == cmd[c].name = "SET" /\ cmd[c].key = k /\ pc[c] /= "idle" /\ pc[c] /= "ret"

\* A SET on key k by c holds the writer lock for its final publish (redis.rs:109-114).
Publishing(c, k) ==
    /\ cmd[c].name = "SET" /\ cmd[c].key = k
    /\ pc[c] = "pub_insert"

\* ---------------------------------------------------------------- actions
\* Steps are cut where handle_command touches shared state: the read handle, the
\* clock, the writer lock and each refresh. A lock().await is taken together with
\* the first refresh made under it, and drop(guard) with the last one: no await
\* lies between them, so the readers and the other writers see nothing in between.

\* redis.rs:62-72: handle_command is entered with the command m. PING and ECHO
\* return at once (62-63); GET reads its read handle and returns (64-67); SET
\* reads the current entry of its key (69-72).
Begin(c, m) ==
    /\ cmd' = [cmd EXCEPT ![c] = m]
    /\ pc' = [pc EXCEPT ![c] = IF m.name = "SET" THEN "set_time" ELSE "ret"]
    /\ reply' = [reply EXCEPT ![c] =
                CASE m.name = "PING" -> SimpleString(PONG)
                  [] m.name = "ECHO" -> SimpleString(m.s)
                  [] m.name = "GET" -> GetReply(table, m.key)
                  [] OTHER -> NoReply]
    /\ old_ent' = [old_ent EXCEPT ![c] = IF m.name = "SET" THEN get_one(table, m.key) ELSE None]
    /\ seen' = [seen EXCEPT ![c] = IF m.name = "SET" THEN get_one(table, m.key) ELSE None]
    /\ obs' = [obs EXCEPT ![c] =
                IF m.name = "GET"
                THEN [head |-> get_one(table, m.key),
                      now |-> clock,
                      quiet |-> \A d \in Conns : ~SetInFlight(d, m.key),
                      last |-> lastPub[m.key],
                      during |-> { << seen[d], entry[d] >> :
                                     d \in { x \in Conns : Publishing(x, m.key) } }]
                ELSE NoObs]
    /\ did' = [d \in Conns |->
                IF d = c
                THEN [NoDid EXCEPT !.alone =
                        Conditional(m) => \A x \in Conns \ {c} : ~SetInFlight(x, m.key)]
                ELSE IF m.name = "SET" /\ Conditional(cmd[d]) /\ cmd[d].key = m.key
                     THEN [did[d] EXCEPT !.alone = FALSE]
                     ELSE did[d]]

\* redis.rs:146: a connection calls handle_command with one of the commands of
\* the menu.
Dispatch(c, m) ==
    /\ pc[c] = "idle"
    /\ issued < MaxCmds
    /\ issued' = issued + 1
    /\ Begin(c, m)
    /\ UNCHANGED << table, writer, clock, unix_ms, entry, lastPub >>
    /\ UNCHANGED << hvars, fvars >>

\* redis.rs:91-108 for connection c with the entry `old` and the time `now`: the
\* condition check, then the new entry.
AfterCheck(c, old, now) ==
    IF CondUnmet(cmd[c].cond, IsSome(old))
    THEN /\ reply' = [reply EXCEPT ![c] = Null]
         /\ pc' = [pc EXCEPT ![c] = "ret"]
         /\ UNCHANGED entry
    ELSE /\ entry' = [entry EXCEPT ![c] = NewEntry(cmd[c], old, now)]
         /\ pc' = [pc EXCEPT ![c] = "pub_lock"]
         /\ UNCHANGED reply

\* redis.rs:73-83 (and 91-108 when the entry has not expired): the clock is read
\* and the expiry check made.
SetTime(c) ==
    /\ pc[c] = "set_time"
    /\ unix_ms' = [unix_ms EXCEPT ![c] = clock]
    /\ IF IsSome(old_ent[c]) /\ expires(Unwrap(old_ent[c]), clock)
       THEN /\ pc' = [pc EXCEPT ![c] = "evict"]
            /\ UNCHANGED << entry, reply >>
       ELSE AfterCheck(c, old_ent[c], clock)
    /\ did' = [did EXCEPT ![c].present =
                    Conditional(cmd[c]) /\ IsSome(get_one(table, cmd[c].key))]
    /\ UNCHANGED << table, writer, clock, issued, cmd, old_ent, seen, obs, lastPub >>
    /\ UNCHANGED << hvars, fvars >>

\* redis.rs:85-108: the expired entry is removed under the writer lock
\* (lock, remove(key, old_ent).refresh(), drop(guard)), old_ent = None, then the
\* condition check and the new entry.
Evict(c) ==
    /\ pc[c] = "evict"
    /\ writer = NoConn
    /\ table' = remove_refresh(table, cmd[c].key, Unwrap(old_ent[c]))
    /\ did' = [did EXCEPT ![c].evicted = TRUE,
                          ![c].present =
                              Conditional(cmd[c]) /\ IsSome(get_one(table', cmd[c].key))]
    /\ lastPub' = [lastPub EXCEPT ![cmd[c].key] = None]
    /\ old_ent' = [old_ent EXCEPT ![c] = None]
    /\ AfterCheck(c, None, unix_ms[c])
    /\ UNCHANGED << writer, clock, issued, cmd, unix_ms, seen, obs >>
    /\ UNCHANGED << hvars, fvars >>

\* redis.rs:109-112 with an old entry: the lock is taken and the old entry removed,
\* guard.remove(key, e).refresh(); the readers now see the key without it.
PubRemove(c) ==
    /\ pc[c] = "pub_lock"
    /\ IsSome(old_ent[c])
    /\ writer = NoConn
    /\ writer' = c
    /\ table' = remove_refresh(table, cmd[c].key, Unwrap(old_ent[c]))
    /\ pc' = [pc EXCEPT ![c] = "pub_insert"]
    /\ UNCHANGED << clock, issued, cmd, old_ent, unix_ms, entry, reply, seen, did, obs, lastPub >>
    /\ UNCHANGED << hvars, fvars >>

\* PubInsert without drop(guard): the lock stays with the connection.
PubInsert_keep_guard(c) ==
    /\ \/ pc[c] = "pub_insert" /\ writer = c
       \/ pc[c] = "pub_lock" /\ ~IsSome(old_ent[c]) /\ writer = NoConn
    /\ writer' = c
    /\ table' = insert_refresh(table, cmd[c].key, entry[c])
    /\ did' = [did EXCEPT ![c].wrote = TRUE]
    /\ lastPub' = [lastPub EXCEPT ![cmd[c].key] = Some(entry[c].val)]
    /\ reply' = [reply EXCEPT ![c] = SetReply(cmd[c], old_ent[c])]
    /\ pc' = [pc EXCEPT ![c] = "ret"]
    /\ UNCHANGED << clock, issued, cmd, old_ent, unix_ms, entry, seen, obs >>
    /\ UNCHANGED << hvars, fvars >>

\* redis.rs:109-122: guard.insert(key, entry).refresh(), drop(guard) and the
\* reply; with no old entry the lock is taken here.
PubInsert(c) ==
    /\ \/ pc[c] = "pub_insert" /\ writer = c
       \/ pc[c] = "pub_lock" /\ ~IsSome(old_ent[c]) /\ writer = NoConn
    /\ writer' = NoConn
    /\ table' = insert_refresh(table, cmd[c].key, entry[c])
    /\ did' = [did EXCEPT ![c].wrote = TRUE]
    /\ lastPub' = [lastPub EXCEPT ![cmd[c].key] = Some(entry[c].val)]
    /\ reply' = [reply EXCEPT ![c] = SetReply(cmd[c], old_ent[c])]
    /\ pc' = [pc EXCEPT ![c] = "ret"]
    /\ UNCHANGED << clock, issued, cmd, old_ent, unix_ms, entry, seen, obs >>
    /\ UNCHANGED << hvars, fvars >>

\* The locals of handle_command are gone once its value has been taken.
Forget(c) ==
    /\ pc' = [pc EXCEPT ![c] = "idle"]
    /\ cmd' = [cmd EXCEPT ![c] = NoCmd]
    /\ old_ent' = [old_ent EXCEPT ![c] = None]
    /\ unix_ms' = [unix_ms EXCEPT ![c] = 0]
    /\ entry' = [entry EXCEPT ![c] = NoEntry]
    /\ reply' = [reply EXCEPT ![c] = NoReply]
    /\ seen' = [seen EXCEPT ![c] = None]
    /\ did' = [did EXCEPT ![c] = NoDid]
    /\ obs' = [obs EXCEPT ![c] = NoObs]

\* handle_command has returned its value to its caller (redis.rs:146-147).
Return(c) ==
    /\ pc[c] = "ret"
    /\ Forget(c)
    /\ UNCHANGED << table, writer, clock, issued, lastPub >>
    /\ UNCHANGED << hvars, fvars >>

\* The wall clock advances (redis.rs:73-76 reads it).
Tick ==
    /\ clock < MaxClock
    /\ clock' = clock + 1
    /\ UNCHANGED << table, writer, issued, pc, cmd, old_ent, unix_ms, entry, reply, seen, did, obs, lastPub >>
    /\ UNCHANGED << hvars, fvars >>

\* ------------------------------------------------- the connection handler
\* What the clients send. A request is an array of bulk strings, as a client
\* library frames it.
RECURSIVE Flatten(_)
Flatten(ss) == IF ss = <<>> THEN <<>> ELSE Head(ss) \o Flatten(Tail(ss))
Bulk(s) == << "$" >> \o Dec(Len(s)) \o CRLF \o s \o CRLF
Request(tokens) ==
    << "*" >> \o Dec(Len(tokens)) \o CRLF
        \o Flatten([i \in 1..Len(tokens) |-> Bulk(tokens[i])])

\* Requests that are commands of the grammar.
GoodRequests ==
    { Request(<< T_PING >>),
      Request(<< T_ECHO, << "a" >> >>),
      Request(<< << "g", "e", "t" >>, << "k" >> >>),
      Request(<< T_SET, << "k" >>, << "a" >> >>),
      Request(<< T_SET, << "k" >>, << "b" >>, T_GET, T_PXAT, << "0" >> >>) }

\* Requests that decode to a value the grammar has to reject.
BadRequests ==
    { Request(<< << "F", "O", "O" >> >>),
      Request(<< T_PING, << "x" >> >>),
      Request(<< T_SET, << "k" >>, << "a" >>, T_EX, << "x" >> >>),
      Request(<< T_SET, << "k" >>, << "a" >>, T_NX, T_XX >>),
      Request(<< T_SET, << "k" >>, << "a" >>, << "n", "x" >> >>),
      Request(<< T_SET, << "k" >>, << "a" >>, << "B", "A", "R" >> >>),
      << "+", "h", "i" >> \o CRLF,
      << "*", "0" >> \o CRLF,
      << "*", "1" >> \o CRLF \o << ":", "1" >> \o CRLF,
      << "$", "x" >> \o CRLF \o << "h", "i" >> \o CRLF }

\* Inputs that are no value of the protocol.
Garbage ==
    { << "@", "x" >> \o CRLF,
      << "*", "x" >> \o CRLF }

Messages == GoodRequests \cup BadRequests \cup Garbage

\* A message reaches the handler whole, or cut in two after its first or before
\* its last byte.
Cuts(m) == { 1, Len(m) - 1, Len(m) }
Chunks(m, k) == IF k = Len(m) THEN << m >> ELSE << Take(m, k), Drop(m, k) >>

\* A client that does not wait for the reply: a request and a second one right
\* behind it, which arrive in one read, the second whole or up to a cut.
Pipelined ==
    { [first |-> m, second |-> Request(<< T_PING >>)] :
        m \in { Request(<< T_ECHO, << "a" >> >>), Request(<< T_SET, << "k" >>, << "a" >> >>) } }

\* The second request is cut like any message, or after its count line.
PipeCuts(m) == Cuts(m) \cup {4}
PipeChunks(p, k) ==
    IF k = Len(p.second) THEN << p.first \o p.second >>
    ELSE << p.first \o Take(p.second, k), Drop(p.second, k) >>

\* What a handler's buffer can hold when it is decoded, and the outcome of
\* parse_protocol, then of parse_command on a decoded value, for each of these
\* buffers, computed once.
Buffers ==
    UNION { { Take(m, k) : k \in Cuts(m) } : m \in Messages }
    \cup UNION { { p.first \o Take(p.second, k) : k \in PipeCuts(p.second) } : p \in Pipelined }
    \cup UNION { { Drop(p.second, k) : k \in PipeCuts(p.second) \ {Len(p.second)} } :
                    p \in Pipelined }
with_command(d) == [d |-> d, m |-> IF d.r = "Ok" THEN parse_command(d.v) ELSE PPanic]
Decoded == [b \in Buffers |-> with_command(parse_protocol(b))]

\* A client whose previous request has been answered sends its next message.
Send(c, m, k) ==
    /\ conn[c] = "Reading" /\ pc[c] = "idle"
    /\ wire[c] = <<>> /\ buf[c] = <<>>
    /\ issued < MaxReqs
    /\ issued' = issued + 1
    /\ wire' = [wire EXCEPT ![c] = Chunks(m, k)]
    /\ UNCHANGED << table, writer, clock, pc, cmd, old_ent, unix_ms, entry, reply,
                    seen, did, obs, lastPub, conn, buf, out, req, fault >>
    /\ UNCHANGED fvars

\* A client sends two requests without waiting for the reply to the first.
SendTwo(c, p, k) ==
    /\ conn[c] = "Reading" /\ pc[c] = "idle"
    /\ wire[c] = <<>> /\ buf[c] = <<>>
    /\ issued < MaxReqs
    /\ issued' = issued + 1
    /\ wire' = [wire EXCEPT ![c] = PipeChunks(p, k)]
    /\ UNCHANGED << table, writer, clock, pc, cmd, old_ent, unix_ms, entry, reply,
                    seen, did, obs, lastPub, conn, buf, out, req, fault, fvars >>

\* redis.rs:137-151 and 161-167: try_read_buf appends what has arrived to the
\* buffer and the whole buffer is decoded. A value goes to parse_command, and a
\* command to handle_command (Begin); a ParseCommandError becomes the reply.
\* Incomplete goes back to reading, any other Err leaves the loop. A panic in
\* parse_protocol or parse_command ends the task.
Decode(c, d, m) ==
       CASE d.r = "Ok" /\ m.r = "Ok" ->
                /\ Begin(c, m.v)
                /\ req' = [req EXCEPT ![c] = d.v]
                /\ UNCHANGED << conn, fault >>
         [] d.r = "Ok" /\ m.r = "Err" ->
                /\ reply' = [reply EXCEPT ![c] = SimpleError(to_string(m.e))]
                /\ pc' = [pc EXCEPT ![c] = "ret"]
                /\ req' = [req EXCEPT ![c] = d.v]
                /\ UNCHANGED << conn, fault, cmd, old_ent, seen, obs, did >>
         [] d.r = "Ok" /\ m.r = "Panic" ->
                /\ conn' = [conn EXCEPT ![c] = "Panicked"]
                /\ fault' = [fault EXCEPT ![c] = "parse_command"]
                /\ req' = [req EXCEPT ![c] = d.v]
                /\ UNCHANGED << pc, reply, cmd, old_ent, seen, obs, did >>
         [] d.r = "Incomplete" ->
                UNCHANGED << conn, fault, req, pc, reply, cmd, old_ent, seen, obs, did >>
         [] d.r = "Error" ->
                /\ conn' = [conn EXCEPT ![c] = "Closed"]
                /\ fault' = [fault EXCEPT ![c] = "malformed"]
                /\ UNCHANGED << req, pc, reply, cmd, old_ent, seen, obs, did >>
         [] d.r = "Panic" ->
                /\ conn' = [conn EXCEPT ![c] = "Panicked"]
                /\ fault' = [fault EXCEPT ![c] = "parse_protocol"]
                /\ UNCHANGED << req, pc, reply, cmd, old_ent, seen, obs, did >>

Read(c) ==
    /\ conn[c] = "Reading" /\ pc[c] = "idle"
    /\ wire[c] /= <<>>
    /\ wire' = [wire EXCEPT ![c] = Tail(wire[c])]
    /\ buf' = [buf EXCEPT ![c] = buf[c] \o Head(wire[c])]
    /\ LET Handle(x) == Decode(c, x.d, x.m) IN Handle(Decoded[buf[c] \o Head(wire[c])])
    /\ UNCHANGED << table, writer, clock, issued, unix_ms, entry, lastPub, out >>
    /\ UNCHANGED fvars

\* Write with a buffer that keeps what parse_protocol did not consume.
Write_keep_rest(c) ==
    /\ conn[c] = "Reading" /\ pc[c] = "ret"
    /\ LET e == encode_protocol(reply[c]) IN
       IF e.r = "Ok"
       THEN /\ out' = [out EXCEPT ![c] = Append(out[c], e.v)]
            /\ buf' = [buf EXCEPT ![c] = Decoded[buf[c]].d.rest]
            /\ req' = [req EXCEPT ![c] = NoReq]
            /\ Forget(c)
            /\ UNCHANGED << conn, fault >>
       ELSE /\ conn' = [conn EXCEPT ![c] = "Panicked"]
            /\ fault' = [fault EXCEPT ![c] = "encode_protocol"]
            /\ UNCHANGED << out, buf, req, pc, cmd, old_ent, unix_ms, entry, reply,
                            seen, did, obs >>
    /\ UNCHANGED << table, writer, clock, issued, lastPub, wire >>
    /\ UNCHANGED fvars

\* redis.rs:152-159: the reply is encoded and written in full, the buffer
\* cleared. A panic in encode_protocol ends the task.
Write(c) ==
    /\ conn[c] = "Reading" /\ pc[c] = "ret"
    /\ LET e == encode_protocol(reply[c]) IN
       IF e.r = "Ok"
       THEN /\ out' = [out EXCEPT ![c] = Append(out[c], e.v)]
            /\ buf' = [buf EXCEPT ![c] = <<>>]
            /\ req' = [req EXCEPT ![c] = NoReq]
            /\ Forget(c)
            /\ UNCHANGED << conn, fault >>
       ELSE /\ conn' = [conn EXCEPT ![c] = "Panicked"]
            /\ fault' = [fault EXCEPT ![c] = "encode_protocol"]
            /\ UNCHANGED << out, buf, req, pc, cmd, old_ent, unix_ms, entry, reply,
                            seen, did, obs >>
    /\ UNCHANGED << table, writer, clock, issued, lastPub, wire >>
    /\ UNCHANGED fvars

\* redis.rs:138: try_read_buf returns Ok(0), the peer has closed.
PeerClose(c) ==
    /\ conn[c] = "Reading" /\ pc[c] = "idle"
    /\ wire[c] = <<>>
    /\ conn' = [conn EXCEPT ![c] = "Closed"]
    /\ fault' = [fault EXCEPT ![c] = "eof"]
    /\ UNCHANGED << table, writer, clock, issued, pc, cmd, old_ent, unix_ms, entry,
                    reply, seen, did, obs, lastPub, buf, wire, out, req >>
    /\ UNCHANGED fvars

\* redis.rs:132-135, 171-174 and 152-157: readable(), try_read_buf or write_all
\* fails.
IoFail(c) ==
    /\ conn[c] = "Reading" /\ pc[c] \in {"idle", "ret"}
    /\ conn' = [conn EXCEPT ![c] = "Closed"]
    /\ fault' = [fault EXCEPT ![c] = "io"]
    /\ UNCHANGED << table, writer, clock, issued, pc, cmd, old_ent, unix_ms, entry,
                    reply, seen, did, obs, lastPub, buf, wire, out, req >>
    /\ UNCHANGED fvars

Next ==
    \/ \E c \in Conns, m \in Cmds : Dispatch(c, m)
    \/ \E c \in Conns : SetTime(c)
    \/ \E c \in Conns : Evict(c)
    \/ \E c \in Conns : PubRemove(c)
    \/ \E c \in Conns : PubInsert(c)
    \/ \E c \in Conns : Return(c)
    \/ Tick

Spec == Init /\ [][Next]_vars

\* The tasks of the connections are scheduled fairly: a task that can take its
\* next step takes it, and a task that waits for the writer lock gets it when
\* the lock is free again and again (the lock of tokio hands itself over in
\* the order of arrival).
Fairness ==
    \A c \in Conns :
        /\ WF_vars(SetTime(c))
        /\ SF_vars(Evict(c))
        /\ SF_vars(PubRemove(c))
        /\ SF_vars(PubInsert(c))

\* The commands whose progress is followed: a GET, a SET that leaves an entry
\* to expire, a conditional SET, and a SET on the other key.
LiveCmds ==
    { Get(<<"k">>),
      SetOpts(<<"k">>, <<"a">>, None, FALSE, Some(PXAT(0))),
      SetOpts(<<"k">>, <<"b">>, Some("NX"), FALSE, None),
      SetOpts(<<"j">>, <<"a">>, None, FALSE, None) }

NextLive ==
    \/ \E c \in Conns, m \in LiveCmds : Dispatch(c, m)
    \/ \E c \in Conns : SetTime(c)
    \/ \E c \in Conns : Evict(c)
    \/ \E c \in Conns : PubRemove(c)
    \/ \E c \in Conns : PubInsert(c)
    \/ \E c \in Conns : Return(c)
    \/ Tick

FairSpec == Init /\ [][NextLive]_vars /\ Fairness

\* The server behind its connections: the clients' requests arrive as bytes and
\* every command comes out of the decoder and the grammar.
NextConn ==
    \/ \E c \in Conns, m \in Messages : \E k \in Cuts(m) : Send(c, m, k)
    \/ \E c \in Conns, p \in Pipelined : \E k \in PipeCuts(p.second) : SendTwo(c, p, k)
    \/ \E c \in Conns : Read(c)
    \/ \E c \in Conns : SetTime(c)
    \/ \E c \in Conns : Evict(c)
    \/ \E c \in Conns : PubRemove(c)
    \/ \E c \in Conns : PubInsert(c)
    \/ \E c \in Conns : Write(c)
    \/ \E c \in Conns : PeerClose(c)
    \/ \E c \in Conns : IoFail(c)
    \/ Tick

SpecConn == Init /\ [][NextConn]_vars

\* ------------------------------------------------------------------ claims
\* Shorthands over a connection's call. The entry a SET read (redis.rs:72) is
\* seen[c]; it is live when it has no timestamp or one not below unix_ms[c].
IsSet(c) == cmd[c].name = "SET"
IsGet(c) == cmd[c].name = "GET"
Returned(c) == pc[c] = "ret"
SeenLive(c) ==
    /\ IsSome(seen[c])
    /\ \/ Unwrap(seen[c]).expire = None
       \/ Unwrap(Unwrap(seen[c]).expire) >= unix_ms[c]
SeenExpired(c) ==
    /\ IsSome(seen[c])
    /\ Unwrap(seen[c]).expire /= None
    /\ Unwrap(Unwrap(seen[c]).expire) < unix_ms[c]
PastCheck(c) == IsSet(c) /\ pc[c] \in {"evict", "pub_lock", "pub_insert", "ret"}
Count(bag, e) == Cardinality({ i \in 1..Len(bag) : bag[i] = e })

\* C1: a GET k that reads while a SET overwriting a live entry of k is between
\* its publish steps returns the old or the new value of that SET, never null.
C1_GetSeesOldOrNew ==
    \A c \in Conns :
        (Returned(c) /\ IsGet(c)) =>
            \A w \in obs[c].during :
                reply[c] \in { BulkString(Unwrap(w[1]).val), BulkString(w[2].val) }

\* C2: a GET k that reads when no SET on k is in flight returns the value of the
\* SET on k that published last.
C2_GetReturnsLastPublished ==
    \A c \in Conns :
        (Returned(c) /\ IsGet(c) /\ obs[c].quiet /\ IsSome(obs[c].last)) =>
            reply[c] = BulkString(Unwrap(obs[c].last))

\* C3: a SET with NX or XX that ran with no other SET on its key beside it wrote
\* iff the key was absent (NX) or present (XX) after the expiry check; when it did
\* not write it replied null and a GET k now returns what the key held (NX) or
\* null (XX).
C3_ConditionalSet ==
    \A c \in Conns :
        (Returned(c) /\ Conditional(cmd[c]) /\ did[c].alone) =>
            /\ cmd[c].cond = Some("NX") => (did[c].wrote <=> ~did[c].present)
            /\ cmd[c].cond = Some("XX") => (did[c].wrote <=> did[c].present)
            /\ ~did[c].wrote =>
                /\ reply[c] = Null
                /\ cmd[c].cond = Some("NX") =>
                       GetReply(table, cmd[c].key) = BulkString(Unwrap(seen[c]).val)
                /\ cmd[c].cond = Some("XX") => GetReply(table, cmd[c].key) = Null

\* C4 (state part): a SET that read an entry with a timestamp below its unix_ms
\* goes on with no old entry and has published the removal; it then writes under
\* NX, replies null and writes nothing under XX, reports null as the previous
\* value and carries no expiration under KEEPTTL. A SET that read an entry with no
\* timestamp, or one not below unix_ms, evicts nothing and keeps it as old entry.
C4_State ==
    \A c \in Conns :
        /\ (PastCheck(c) /\ pc[c] /= "evict" /\ SeenExpired(c)) =>
              /\ did[c].evicted
              /\ old_ent[c] = None
              /\ (Returned(c) /\ cmd[c].cond = Some("NX")) => did[c].wrote
              /\ (Returned(c) /\ cmd[c].cond = Some("XX")) =>
                     (reply[c] = Null /\ ~did[c].wrote)
              /\ (Returned(c) /\ cmd[c].cond /= Some("XX") /\ cmd[c].ret_old) =>
                     reply[c] = Null
              /\ (cmd[c].cond /= Some("XX") /\ cmd[c].expire = Some(KEEPTTL)) =>
                     entry[c].expire = None
        /\ (PastCheck(c) /\ SeenLive(c)) =>
              /\ pc[c] /= "evict"
              /\ ~did[c].evicted
              /\ old_ent[c] = seen[c]

\* C4 (step part): the step that leaves the expiry path takes one occurrence of
\* the expired entry out of the key's bag, whether or not the call writes later,
\* and touches no other key.
C4_Step ==
    \A c \in Conns :
        (pc[c] = "evict" /\ pc'[c] /= "evict") =>
            LET k == cmd[c].key
                e == Unwrap(seen[c])
                n == Count(table[k], e)
            IN /\ Count(table'[k], e) = IF n > 0 THEN n - 1 ELSE 0
               /\ Len(table'[k]) = Len(table[k]) - (IF n > 0 THEN 1 ELSE 0)
               /\ \A j \in Keys \ {k} : table'[j] = table[j]

\* C4: lazy expiry on SET.
C4_LazyExpiry == []C4_State /\ [][C4_Step]_vars

\* C4 witness: a SET XX found its key's entry expired, published the removal,
\* replied null and wrote nothing.
C4_Witness ==
    \E c \in Conns :
        /\ Returned(c) /\ IsSet(c) /\ cmd[c].cond = Some("XX")
        /\ SeenExpired(c) /\ did[c].evicted /\ ~did[c].wrote
        /\ reply[c] = Null
        /\ table[cmd[c].key] = <<>>

\* C5 (state part): the reply of a GET is the value of the first entry the key
\* holds when it reads, whatever that entry's timestamp and the clock.
C5_State ==
    \A c \in Conns :
        (Returned(c) /\ IsGet(c)) =>
            reply[c] = IF IsSome(obs[c].head)
                       THEN BulkString(Unwrap(obs[c].head).val)
                       ELSE Null

\* C5 (step part): a GET leaves the Table as it is, and the bag of a key changes
\* only in a step of a SET on that key.
C5_Step ==
    /\ \A c \in Conns : (pc[c] = "idle" /\ IsGet(c)') => table' = table
    /\ \A k \in Keys :
          table'[k] /= table[k] =>
              \E c \in Conns : IsSet(c) /\ cmd[c].key = k /\ pc'[c] /= pc[c]

\* C5: GET never evaluates expiration and never mutates the Table; only a SET on
\* k evicts an expired entry of k.
C5_GetIgnoresExpiry == []C5_State /\ [][C5_Step]_vars

\* C5 witness: a GET returned the value of an entry whose timestamp had passed.
C5_Witness ==
    \E c \in Conns :
        /\ Returned(c) /\ IsGet(c)
        /\ IsSome(obs[c].head)
        /\ Unwrap(obs[c].head).expire /= None
        /\ Unwrap(Unwrap(obs[c].head).expire) < obs[c].now
        /\ reply[c] = BulkString(Unwrap(obs[c].head).val)

\* The expiration C6 states for the entry a SET stores: that of the live entry it
\* read under KEEPTTL, none under KEEPTTL on an absent or expired key, none with
\* no expiration option.
C6_Expected(c) ==
    IF cmd[c].expire = Some(KEEPTTL) /\ SeenLive(c)
    THEN Unwrap(seen[c]).expire
    ELSE None

\* C6 (step part): the publishing step of a SET with KEEPTTL or with no expiration
\* option adds to the key's bag the entry of its value with that expiration.
C6_Step ==
    \A c \in Conns :
        (IsSet(c) /\ pc[c] \in {"pub_lock", "pub_insert"} /\ pc'[c] = "ret"
            /\ cmd[c].expire \in {None, Some(KEEPTTL)}) =>
            LET bag == table'[cmd[c].key]
            IN /\ Len(bag) = Len(table[cmd[c].key]) + 1
               /\ bag[Len(bag)] = Entry(cmd[c].val, C6_Expected(c))

\* C6: KEEPTTL keeps the expiration of a live entry, and a SET with no expiration
\* option stores none.
C6_KeepTtl == [][C6_Step]_vars

\* C6 witness: a SET with KEEPTTL on a live entry with a timestamp has written an
\* entry with that timestamp and another value.
C6_Witness ==
    \E c \in Conns :
        /\ Returned(c) /\ IsSet(c) /\ did[c].wrote
        /\ cmd[c].expire = Some(KEEPTTL)
        /\ SeenLive(c) /\ Unwrap(seen[c]).expire /= None
        /\ Unwrap(seen[c]).val /= cmd[c].val
        /\ table[cmd[c].key] = << Entry(cmd[c].val, Unwrap(seen[c]).expire) >>

\* The SET of c passes its condition: after the expiry check the key is absent
\* under NX, present under XX.
C7_Passes(c) ==
    /\ cmd[c].cond = Some("NX") => ~SeenLive(c)
    /\ cmd[c].cond = Some("XX") => SeenLive(c)

\* C7: a SET that passes its condition has written, and replies with the value
\* of the live entry it read, or null, when the return-previous flag is set, and
\* with OK otherwise.
C7_SetReply ==
    \A c \in Conns :
        (Returned(c) /\ IsSet(c) /\ C7_Passes(c)) =>
            /\ did[c].wrote
            /\ reply[c] = IF cmd[c].ret_old
                          THEN IF SeenLive(c)
                               THEN BulkString(Unwrap(seen[c]).val)
                               ELSE Null
                          ELSE SimpleString(OK)

\* C7 witness: a SET with the return-previous flag replied with the old value of
\* a live entry it overwrote with another value.
C7_Witness ==
    \E c \in Conns :
        /\ Returned(c) /\ IsSet(c) /\ cmd[c].ret_old /\ did[c].wrote
        /\ SeenLive(c) /\ Unwrap(seen[c]).val /= cmd[c].val
        /\ reply[c] = BulkString(Unwrap(seen[c]).val)

\* A handler holds a reply for the request it decoded and has not failed on I/O.
Replying(c) == conn[c] = "Reading" /\ pc[c] = "ret"

\* C8 (state part): a reply is held only for a request that decoded to a full
\* value, and never more replies are written than requests were sent.
C8_State ==
    /\ \A c \in Conns : Replying(c) => req[c] /= NoReq
    /\ Cardinality({ c \in Conns : req[c] /= NoReq })
           + Len(Flatten([c \in Conns |-> out[c]])) <= issued

\* C8 (step part): the step a handler takes once command execution has returned
\* a value, I/O failures apart, writes exactly one reply after those already
\* written, clears the buffer and returns to Reading; a null value is written as
\* a reply like any other.
C8_Step ==
    \A c \in Conns :
        (Replying(c) /\ << conn[c], pc[c], out[c] >>' /= << conn[c], pc[c], out[c] >>
            /\ fault'[c] /= "io") =>
            /\ conn'[c] = "Reading" /\ pc'[c] = "idle"
            /\ Len(out'[c]) = Len(out[c]) + 1
            /\ Take(out'[c], Len(out[c])) = out[c]
            /\ out'[c][Len(out'[c])] /= <<>>
            /\ buf'[c] = <<>>

\* C8: every request that decodes to a full value gets exactly one encoded reply,
\* written in full on its connection in request order, after which the connection
\* is Reading again; so for every value command execution returns, the null
\* reply of a GET on an absent key included.
C8_OneReplyPerRequest == []C8_State /\ [][C8_Step]_vars

\* The decoded value v is not a command of the grammar.
RequestFailure(v) == v /= NoReq /\ parse_command(v).r /= "Ok"

\* C9 (state part): while a decoded value that is no command is handled, the
\* connection stays in its loop and holds a simple error as the reply.
C9_State ==
    \A c \in Conns :
        (RequestFailure(req[c]) /\ fault[c] /= "io") =>
            /\ conn[c] = "Reading"
            /\ pc[c] = "ret"
            /\ reply[c].t = "SimpleError"

\* C9 (step part): the reply to such a value is written as a simple error and
\* the handler is Reading again with an empty buffer, ready for the next request.
C9_Step ==
    \A c \in Conns :
        (RequestFailure(req[c]) /\ pc[c] = "ret" /\ pc'[c] = "idle") =>
            /\ conn'[c] = "Reading"
            /\ buf'[c] = <<>>
            /\ out'[c][Len(out'[c])][1] = "-"

\* C9: every request-level failure of a fully decoded value (a top-level value
\* of the wrong shape, the empty array included, an unknown command, a wrong
\* argument count, conflicting or unknown SET options in any letter case, a
\* non-numeric TTL) is answered with a simple error and neither closes nor aborts
\* the connection.
C9_RequestFailureReplied == []C9_State /\ [][C9_Step]_vars

\* The fifteen sigils, and those followed by a length or count line.
Sigils == { "+", "-", ":", "$", "*", "_", "#", ",", "(", "!", "=", "%", "|", "~", ">" }
CountSigils == { "$", "*", "!", "=", "%", "|", "~", ">" }
UnknownSigil(b) == b /= <<>> /\ b[1] \notin Sigils
NonNumericCount(b) ==
    /\ b /= <<>> /\ b[1] \in CountSigils
    /\ find_substring(b, CRLF) > 0
    /\ unsigned_from_str_radix(SubSeq(b, 2, find_substring(b, CRLF) - 1)) = None

\* C10: decoding the buffer yields Parsed, Incomplete or Malformed and never
\* aborts; a buffer whose first byte is none of the fifteen sigils, or whose
\* length or count line is not a number, is Malformed and its connection Closed
\* for that reason; on Incomplete the handler keeps the bytes and is Reading.
C10_DecodeOutcome ==
    \A c \in Conns :
        /\ parse_protocol(buf[c]).r \in { "Ok", "Incomplete", "Error" }
        /\ fault[c] /= "parse_protocol"
        /\ (UnknownSigil(buf[c]) \/ NonNumericCount(buf[c])) =>
              /\ parse_protocol(buf[c]).r = "Error"
              /\ conn[c] = "Closed" /\ fault[c] = "malformed"
        /\ (buf[c] /= <<>> /\ parse_protocol(buf[c]).r = "Incomplete"
                /\ fault[c] \notin { "eof", "io" }) =>
              conn[c] = "Reading" /\ pc[c] = "idle"

\* ---------------------------------------------------------------------------
\* The codec on its own: parse_protocol and encode_protocol applied to
\* well-formed messages and to the values the engine replies with.
\* ---------------------------------------------------------------------------

Containers == {"Array", "Set", "Push", "Map", "Attributes"}

RECURSIVE Wire(_)
RECURSIVE WireAll(_)
RECURSIVE WirePairs(_)

\* The bytes of the elements of an array, set or push, one after the other.
WireAll(vs) == IF vs = <<>> THEN <<>> ELSE Wire(Head(vs)) \o WireAll(Tail(vs))

\* The bytes of the pairs of a map or attributes: key, value, key, value...
WirePairs(ps) ==
    IF ps = <<>> THEN <<>>
    ELSE Wire(Head(ps).key) \o Wire(Head(ps).val) \o WirePairs(Tail(ps))

\* The message each rule of parse_protocol reads for a value: the sigil, the
\* line or lines of the rule, and for a container its count line followed by
\* that many nested messages. A boolean is the sigil and one letter, which is
\* all parse_boolean takes.
Wire(v) ==
    CASE v.t = "SimpleString" -> << "+" >> \o v.s \o CRLF
      [] v.t = "SimpleError" -> << "-" >> \o v.s \o CRLF
      [] v.t = "Integer" ->
            << ":" >> \o (IF v.n < 0 THEN << "-" >> \o Dec(0 - v.n) ELSE Dec(v.n)) \o CRLF
      [] v.t = "BulkString" -> << "$" >> \o Dec(Len(v.s)) \o CRLF \o v.s \o CRLF
      [] v.t = "Null" -> << "_" >> \o CRLF
      [] v.t = "Boolean" -> << "#", IF v.b THEN "t" ELSE "f" >>
      [] v.t = "Double" -> << "," >> \o v.x \o CRLF
      [] v.t = "BigNums" -> << "(" >> \o v.s \o CRLF
      [] v.t = "Verbatim" ->
            << "=" >> \o Dec(Len(v.enc) + 1 + Len(v.data)) \o CRLF
                \o v.enc \o << ":" >> \o v.data \o CRLF
      [] v.t = "Array" -> << "*" >> \o Dec(Len(v.v)) \o CRLF \o WireAll(v.v)
      [] v.t = "Set" -> << "~" >> \o Dec(Len(v.v)) \o CRLF \o WireAll(v.v)
      [] v.t = "Push" -> << ">" >> \o Dec(Len(v.v)) \o CRLF \o WireAll(v.v)
      [] v.t = "Map" -> << "%" >> \o Dec(Len(v.v)) \o CRLF \o WirePairs(v.v)
      [] v.t = "Attributes" -> << "|" >> \o Dec(Len(v.v)) \o CRLF \o WirePairs(v.v)

\* Values without elements, one or two of every kind.
Scalars ==
    { SimpleString(<< "h", "i" >>), SimpleError(<< "n", "o" >>),
      Integer(12), Integer(0 - 7),
      BulkString(<< "a", "b" >>), BulkString(<<>>),
      BulkString(<< "a" >> \o CRLF \o << "b" >>),
      Null, Boolean(TRUE), Boolean(FALSE),
      Double(<< "1", ".", "5" >>), BigNums(<< "1", "2" >>),
      Verbatim(<< "t", "x", "t" >>, << "h", "i" >>) }

\* Containers with zero, one and two elements or pairs, nested two deep at most.
Nested ==
    { Array(<<>>), Array(<< Integer(1), BulkString(<< "a" >>) >>),
      Array(<< Array(<< Integer(1) >>), Null >>),
      Set(<< Integer(1), Integer(2) >>),
      Push(<< SimpleString(<< "h", "i" >>), Integer(1) >>),
      Map(<<>>), Map(<< Pair(Integer(1), Integer(2)) >>),
      Map(<< Pair(Integer(1), Integer(2)), Pair(Integer(3), Integer(4)) >>),
      Map(<< Pair(BulkString(<< "a" >>), Array(<< Integer(1), Integer(2) >>)) >>),
      Attributes(<< Pair(Integer(1), Integer(2)) >>),
      Attributes(<< Pair(Integer(1), Integer(2)), Pair(Integer(3), Integer(4)) >>) }

CodecValues == Scalars \cup Nested

\* What handle_command replies with (redis.rs:62-66, 116-122), and arrays of
\* these.
EncoderValues ==
    { SimpleString(<< "O", "K" >>), SimpleString(<<>>), SimpleError(<< "n", "o" >>),
      Integer(0), Integer(12), Integer(0 - 7),
      BulkString(<<>>), BulkString(<< "a" >>), BulkString(<< "a", "b" >>),
      BulkString(<< "a" >> \o CRLF \o << "b" >>), BulkString(CRLF),
      Array(<<>>), Array(<< Integer(1), BulkString(<< "a" >>) >>) }

\* A well-formed message cut strictly inside, or a pair of values to encode.
CodecArgs ==
    UNION { { [kind |-> "message", v |-> v, m |-> Wire(v), cut |-> k] :
                k \in 1 .. (Len(Wire(v)) - 1) } : v \in CodecValues }
    \cup { [kind |-> "values", v |-> v, w |-> w] : v, w \in EncoderValues }

InitCodec ==
    /\ InitServer
    /\ arg \in CodecArgs
    /\ res = NoRes

\* The decoder on the first chunk of a message, then on both chunks together.
Deliver ==
    /\ arg.kind = "message"
    /\ res = NoRes
    /\ res' = [kind |-> "delivered",
               first |-> parse_protocol(Take(arg.m, arg.cut)),
               both |-> parse_protocol(Take(arg.m, arg.cut) \o Drop(arg.m, arg.cut)),
               whole |-> parse_protocol(arg.m)]
    /\ UNCHANGED << arg, table, writer, clock, issued, pc, cmd, old_ent, unix_ms,
                    entry, reply, seen, did, obs, lastPub, hvars >>

\* decode(encode(v)): the decoder on what the encoder returned, when it did.
decode_encoded(e) == IF e.r = "Ok" THEN parse_protocol(e.v) ELSE e

\* The encoder on two values, and the decoder on the bytes of the first.
RoundTrip ==
    /\ arg.kind = "values"
    /\ res = NoRes
    /\ res' = [kind |-> "encoded",
               bytes |-> encode_protocol(arg.v),
               other |-> encode_protocol(arg.w),
               back |-> decode_encoded(encode_protocol(arg.v))]
    /\ UNCHANGED << arg, table, writer, clock, issued, pc, cmd, old_ent, unix_ms,
                    entry, reply, seen, did, obs, lastPub, hvars >>

NextCodec == Deliver \/ RoundTrip

SpecCodec == InitCodec /\ [][NextCodec]_vars

\* C11: a well-formed message of any kind cut strictly inside decodes to
\* Incomplete on its first chunk, and on both chunks together to what the whole
\* message decodes to, a value with every byte of the message consumed.
C11_IncrementalDelivery ==
    res.kind = "delivered" =>
        /\ res.first.r = "Incomplete"
        /\ res.both = res.whole
        /\ res.whole.r = "Ok"
        /\ res.whole.rest = <<>>

\* C12: every value the engine replies with (simple strings and errors without
\* CRLF, integers, bulk strings also with CRLF in the payload, arrays of these)
\* is encoded, decodes back to itself with every byte of the encoding consumed,
\* and two different values never have the same encoding.
C12_RoundTrip ==
    res.kind = "encoded" =>
        /\ res.bytes.r = "Ok"
        /\ res.back = POk(<<>>, arg.v)
        /\ arg.v /= arg.w => res.bytes /= res.other

\* C20: the message of a map or attributes of n pairs decodes to exactly those
\* n pairs in order, and that of an array, set or push of n elements to those
\* n elements, with the input consumed through the last of them.
C20_ContainerElements ==
    (res.kind = "delivered" /\ arg.v.t \in Containers) =>
        res.whole = POk(<<>>, arg.v)

\* ---------------------------------------------------------------------------
\* The grammar on its own: parse_command applied to decoded values.
\* ---------------------------------------------------------------------------

\* The most arguments after the name of PING, ECHO, GET or an unknown command,
\* and the most option tokens after the key and the value of SET.
MaxOpts == 3

\* Sequences of at most n elements of S.
SeqUpTo(S, n) == UNION { [1..k -> S] : k \in 0..n }

\* Command names as a client may write them.
Names ==
    { T_PING, << "p", "i", "n", "g" >>, T_ECHO, << "E", "c", "h", "o" >>,
      T_GET, << "g", "e", "t" >>, T_SET, << "s", "e", "t" >>,
      << "F", "O", "O" >>, << "f", "o", "o" >> }

\* Arguments of PING, ECHO, GET and of unknown commands.
PlainArgs == { << "k" >>, << "a" >> }

\* Tokens after SET key value: the options in upper case, some of them in
\* lower case, numbers, and tokens that are neither.
OptTokens ==
    { T_GET, << "g", "e", "t" >>, T_NX, T_XX, << "n", "x" >>, T_KEEPTTL,
      T_EX, T_PX, T_EXAT, T_PXAT, << "p", "x" >>,
      << "1", "0" >>, << "-", "1" >>, << "x" >> }

RECURSIVE Bulks(_)
\* The array elements of a sequence of byte strings.
Bulks(ss) == IF ss = <<>> THEN <<>> ELSE << BulkString(Head(ss)) >> \o Bulks(Tail(ss))

\* Arrays of bulk strings: a name and its arguments.
Envelopes ==
    { Array(Bulks(<< n >> \o a)) :
        n \in Names \ {T_SET, << "s", "e", "t" >>}, a \in SeqUpTo(PlainArgs, MaxOpts) }
    \cup { Array(Bulks(<< n >> \o a)) :
        n \in {T_SET, << "s", "e", "t" >>}, a \in SeqUpTo(PlainArgs, 1) }
    \cup { Array(Bulks(<< n, << "k" >>, << "a" >> >> \o o)) :
        n \in {T_SET, << "s", "e", "t" >>}, o \in SeqUpTo(OptTokens, MaxOpts) }

\* Decoded values of another shape: no array, an array without elements, an
\* array whose name or whose argument is no bulk string.
NonEnvelopes ==
    { BulkString(T_PING), SimpleString(T_PING), Integer(1), Null,
      Set(<< BulkString(T_PING) >>), Map(<<>>),
      Array(<<>>),
      Array(<< SimpleString(T_PING) >>), Array(<< Integer(1), BulkString(<< "k" >>) >>),
      Array(<< BulkString(T_GET), Integer(1) >>),
      Array(<< BulkString(T_ECHO), BulkString(<< "a" >>), Null >>),
      Array(<< BulkString(T_SET), BulkString(<< "k" >>), SimpleString(<< "a" >>) >>),
      Array(<< BulkString(<< "F", "O", "O" >>), Array(<<>>) >>) }

InitGrammar ==
    /\ InitServer
    /\ arg \in { [kind |-> "decoded", v |-> v] : v \in Envelopes \cup NonEnvelopes }
    /\ res = NoRes

\* command.rs:72: parse_command on the decoded value.
ParseCommand ==
    /\ arg.kind = "decoded"
    /\ res = NoRes
    /\ res' = [kind |-> "parsed", out |-> parse_command(arg.v)]
    /\ UNCHANGED << arg, table, writer, clock, issued, pc, cmd, old_ent, unix_ms,
                    entry, reply, seen, did, obs, lastPub, hvars >>

NextGrammar == ParseCommand

SpecGrammar == InitGrammar /\ [][NextGrammar]_vars

\* The decoded value is SET key value followed by option tokens.
IsSetEnvelope(v) ==
    /\ v.t = "Array"
    /\ Len(v.v) >= 3
    /\ \A i \in 1..Len(v.v) : v.v[i].t = "BulkString"
    /\ to_uppercase(v.v[1].s) = T_SET

\* The option tokens of a SET envelope.
OptionsOf(v) == [i \in 1..(Len(v.v) - 3) |-> v.v[i + 3].s]

\* Every token is written in upper case, or is GET in any case.
UpperCased(tokens) ==
    \A i \in 1..Len(tokens) :
        tokens[i] = to_uppercase(tokens[i]) \/ to_uppercase(tokens[i]) = T_GET

RECURSIVE C13_Scan(_, _, _)
\* The option tokens read left to right from the i-th: GET any number of times,
\* one condition at most, one expiration kind at most, EX, PX, EXAT and PXAT
\* followed by a non-negative integer; anything else is WrongArguments.
C13_Scan(tokens, i, opts) ==
    IF i > Len(tokens) THEN COk(opts)
    ELSE
    CASE to_uppercase(tokens[i]) = T_GET ->
            C13_Scan(tokens, i + 1, [opts EXCEPT !.ret_old = TRUE])
      [] tokens[i] \in {T_NX, T_XX} ->
            IF opts.cond /= None THEN CErr(WrongArguments)
            ELSE C13_Scan(tokens, i + 1,
                    [opts EXCEPT !.cond = Some(IF tokens[i] = T_NX THEN "NX" ELSE "XX")])
      [] tokens[i] = T_KEEPTTL ->
            IF opts.expire /= None THEN CErr(WrongArguments)
            ELSE C13_Scan(tokens, i + 1, [opts EXCEPT !.expire = Some(KEEPTTL)])
      [] tokens[i] \in {T_EX, T_PX, T_EXAT, T_PXAT} ->
            IF opts.expire /= None \/ i = Len(tokens) THEN CErr(WrongArguments)
            ELSE IF unsigned_from_str_radix(tokens[i + 1]) = None THEN CErr(WrongArguments)
            ELSE C13_Scan(tokens, i + 2,
                    [opts EXCEPT !.expire =
                        Some(CASE tokens[i] = T_EX -> EX(Unwrap(unsigned_from_str_radix(tokens[i + 1])))
                               [] tokens[i] = T_PX -> PX(Unwrap(unsigned_from_str_radix(tokens[i + 1])))
                               [] tokens[i] = T_EXAT -> EXAT(Unwrap(unsigned_from_str_radix(tokens[i + 1])))
                               [] tokens[i] = T_PXAT -> PXAT(Unwrap(unsigned_from_str_radix(tokens[i + 1]))))])
      [] OTHER -> CErr(WrongArguments)

\* The scan of the options gives a command or WrongArguments, whatever the
\* tokens.
C13_Total ==
    (res.kind = "parsed" /\ IsSetEnvelope(arg.v)) =>
        res.out.r = "Ok" \/ res.out = CErr(WrongArguments)

\* Tokens written in upper case are scanned as the rules say.
C13_Upper ==
    (res.kind = "parsed" /\ IsSetEnvelope(arg.v) /\ UpperCased(OptionsOf(arg.v))) =>
        res.out = C13_Scan(OptionsOf(arg.v), 1,
                           SetOpts(arg.v.v[2].s, arg.v.v[3].s, None, FALSE, None))

\* C13: the option tokens after SET key value give Set(options) exactly when
\* they are GET any number of times, at most one of NX and XX, and at most one
\* expiration kind, EX, PX, EXAT and PXAT each followed by a non-negative
\* integer; the options record exactly what was given; every other sequence of
\* tokens gives WrongArguments.
C13_SetOptions == C13_Total /\ C13_Upper

\* The decoded value is an array of bulk strings, the name first.
IsEnvelope(v) ==
    /\ v.t = "Array"
    /\ Len(v.v) >= 1
    /\ \A i \in 1..Len(v.v) : v.v[i].t = "BulkString"

NameOf(v) == to_uppercase(v.v[1].s)
ArgsOf(v) == [i \in 1..(Len(v.v) - 1) |-> v.v[i + 1].s]

\* C14: on an array of bulk strings the name is compared without regard to
\* case; PING is accepted exactly with no argument, ECHO and GET exactly with
\* one, SET only with two or more, every other number of arguments of these
\* gives WrongArguments, and every other name gives UnrecognizedCommand with
\* the name in upper case, whatever its arguments.
C14_Dispatch ==
    (res.kind = "parsed" /\ IsEnvelope(arg.v)) =>
        CASE NameOf(arg.v) = T_PING ->
                res.out = IF Len(ArgsOf(arg.v)) = 0 THEN COk(Ping) ELSE CErr(WrongArguments)
          [] NameOf(arg.v) = T_ECHO ->
                res.out = IF Len(ArgsOf(arg.v)) = 1 THEN COk(Echo(ArgsOf(arg.v)[1]))
                          ELSE CErr(WrongArguments)
          [] NameOf(arg.v) = T_GET ->
                res.out = IF Len(ArgsOf(arg.v)) = 1 THEN COk(Get(ArgsOf(arg.v)[1]))
                          ELSE CErr(WrongArguments)
          [] NameOf(arg.v) = T_SET ->
                IF Len(ArgsOf(arg.v)) < 2 THEN res.out = CErr(WrongArguments)
                ELSE res.out.r = "Ok" => res.out.v.name = "SET"
          [] OTHER -> res.out = CErr(UnrecognizedCommand(NameOf(arg.v)))

\* A name in lower case was dispatched: get with one argument was accepted and
\* foo with arguments was rejected as FOO.
C14_Witness ==
    /\ res.kind = "parsed"
    /\ IsEnvelope(arg.v)
    /\ \/ /\ arg.v.v[1].s = << "g", "e", "t" >>
          /\ res.out = COk(Get(<< "k" >>))
       \/ /\ arg.v.v[1].s = << "f", "o", "o" >>
          /\ Len(arg.v.v) = 3
          /\ res.out = CErr(UnrecognizedCommand(<< "F", "O", "O" >>))

\* C15: a decoded value that is no array, or an array with an element that is
\* no bulk string, gives WrongProtocolDataType, and parse_command returns a
\* command or an error for every decoded value, the array of no element
\* included.
C15_InputContract ==
    res.kind = "parsed" =>
        /\ res.out.r \in {"Ok", "Err"}
        /\ (arg.v.t /= "Array" \/ \E i \in 1..Len(arg.v.v) : arg.v.v[i].t /= "BulkString")
            => res.out = CErr(WrongProtocolDataType)

\* C17: in every reachable state the table holds at most one entry for each
\* key.
C17_OneEntryPerKey == \A k \in Keys : Len(table[k]) <= 1

\* A reply is written only for the value decoded at the beginning of the
\* buffer, one reply at a time, and leaves the buffer empty.
C19_Step ==
    \A c \in Conns :
        out'[c] /= out[c] =>
            /\ Len(out'[c]) = Len(out[c]) + 1
            /\ Decoded[buf[c]].d.r = "Ok"
            /\ req[c] = Decoded[buf[c]].d.v
            /\ buf'[c] = <<>>
            /\ req'[c] = NoReq

\* C19: one request is answered per decode: the reply is for the first value
\* of the buffer, and once it is written the buffer is empty whatever followed
\* that value in the read, so that the bytes of a second request are dropped
\* without a reply and the next decode starts at the first byte of the next
\* read.
C19_OneRequestPerDecode == [][C19_Step]_vars

\* A read brought a request and the beginning of a second one; the first has
\* been answered, the buffer is empty, and the end of the second request is
\* still to be read.
C19_Witness ==
    \E c \in Conns, p \in Pipelined :
        /\ conn[c] = "Reading" /\ pc[c] = "idle"
        /\ Len(out[c]) = 1
        /\ buf[c] = <<>>
        /\ wire[c] = << Drop(p.second, 4) >>

\* ---------------------------------------------------------------------------
\* The expiration arithmetic on its own, at the width of u64. A u64 is four
\* digits of sixteen bits, the least significant first.
\* ---------------------------------------------------------------------------

Radix == 65536
Zero64 == << 0, 0, 0, 0 >>

RECURSIVE mul_digits(_, _, _, _)
\* a * k from the i-th digit on with carry c coming in: the digits and the
\* carry out of the last one.
mul_digits(a, k, i, c) ==
    IF i > Len(a) THEN [v |-> <<>>, carry |-> c]
    ELSE LET rest(r) == [v |-> << (a[i] * k + c) % Radix >> \o r.v, carry |-> r.carry]
         IN rest(mul_digits(a, k, i + 1, (a[i] * k + c) \div Radix))

RECURSIVE add_digits(_, _, _, _)
\* a + b from the i-th digit on with carry c coming in.
add_digits(a, b, i, c) ==
    IF i > Len(a) THEN [v |-> <<>>, carry |-> c]
    ELSE LET rest(r) == [v |-> << (a[i] + b[i] + c) % Radix >> \o r.v, carry |-> r.carry]
         IN rest(add_digits(a, b, i + 1, (a[i] + b[i] + c) \div Radix))

\* a < b on numbers of as many digits.
less_than(a, b) ==
    \E i \in 1..Len(a) : a[i] < b[i] /\ \A j \in (i + 1)..Len(a) : a[j] = b[j]

\* The digit d as a u64.
small(d) == << d, 0, 0, 0 >>

RECURSIVE u64_digits(_, _)
\* The decimal digits x appended to the number acc; None when the number
\* leaves the 64 bits.
u64_digits(x, acc) ==
    IF x = <<>> THEN Some(acc)
    ELSE LET plus(p) == IF p.carry /= 0 THEN None ELSE u64_digits(Tail(x), p.v)
             times(m) == IF m.carry /= 0 THEN None
                         ELSE plus(add_digits(m.v, small(DigitVal(Head(x))), 1, 0))
         IN times(mul_digits(acc, 10, 1, 0))

\* command.rs:115: u64::from_str_radix(x, 10), an optional "+" and at least one
\* digit; a number of more than 64 bits is an error.
u64_from_str_radix(x) ==
    LET digits(d) ==
            IF d /= <<>> /\ \A i \in 1..Len(d) : IsDigit(d[i])
            THEN u64_digits(d, Zero64) ELSE None
    IN digits(IF x /= <<>> /\ x[1] = "+" THEN Drop(x, 1) ELSE x)

\* How the crate is built: with overflow checks (the dev profile) or without
\* (the release profile).
Builds == {"debug", "release"}

\* The operators * and + of u64 on a result with its carry: exact without
\* carry; with a carry a panic when overflow is checked, else the low 64 bits.
arith(build, r) ==
    IF r.carry = 0 \/ build = "release" THEN Returns(r.v) ELSE PPanic

\* redis.rs:102: unix_ms + s * 1000
plus_product(build, now, prod) ==
    IF prod.r /= "Ok" THEN prod ELSE arith(build, add_digits(now, prod.v, 1, 0))

\* redis.rs:100-107: the expiration of the new entry for EX, PX, EXAT and PXAT
\* of t, the clock reading now (unix_ms in the source). NewEntry computes the
\* same on the integers for the TTLs and clocks of the engine's menu, which are
\* far from the 64 bits.
resolve_expire(build, kind, t, now) ==
    CASE kind = "EX" -> plus_product(build, now, arith(build, mul_digits(t, MsPerSec, 1, 0)))
      [] kind = "PX" -> arith(build, add_digits(now, t, 1, 0))
      [] kind = "EXAT" -> arith(build, mul_digits(t, MsPerSec, 1, 0))
      [] kind = "PXAT" -> Returns(t)

\* TTL tokens: small ones, the largest number of seconds whose milliseconds
\* fit in 64 bits and the next one, the largest u64, and 2^64.
TtlTokens ==
    { << "0" >>, << "1" >>, << "1", "0", "0", "0" >>,
      << "1", "8", "4", "4", "6", "7", "4", "4", "0", "7", "3", "7", "0", "9", "5", "5", "1" >>,
      << "1", "8", "4", "4", "6", "7", "4", "4", "0", "7", "3", "7", "0", "9", "5", "5", "2" >>,
      << "1", "8", "4", "4", "6", "7", "4", "4", "0", "7", "3", "7", "0", "9", "5", "5", "1", "6", "1", "5" >>,
      << "1", "8", "4", "4", "6", "7", "4", "4", "0", "7", "3", "7", "0", "9", "5", "5", "1", "6", "1", "6" >> }

\* Clock readings in ms since the epoch: 2026-11-01 12:00:00 UTC and one
\* second later.
Clocks == { << 5632, 38651, 417, 0 >>, << 6632, 38651, 417, 0 >> }

RelativeKinds == {"EX", "PX"}
ExpireKinds == RelativeKinds \cup {"EXAT", "PXAT"}

\* SET key value <kind> <ttl> twice at the same clock reading, with a smaller
\* and a larger TTL token.
InitExpire ==
    /\ InitServer
    /\ arg \in [kind : {"ttl"}, opt : ExpireKinds, low : TtlTokens, high : TtlTokens,
                now : Clocks]
    /\ res = NoRes

\* command.rs:115-126, then redis.rs:99-108 for each of the two tokens.
resolved(build, opt, t, now) ==
    IF t = None THEN CErr(WrongArguments)
    ELSE resolve_expire(build, opt, Unwrap(t), now)

Resolve(build) ==
    /\ arg.kind = "ttl"
    /\ res = NoRes
    /\ res' = [kind |-> "resolved",
               build |-> build,
               low |-> u64_from_str_radix(arg.low),
               high |-> u64_from_str_radix(arg.high),
               e_low |-> resolved(build, arg.opt, u64_from_str_radix(arg.low), arg.now),
               e_high |-> resolved(build, arg.opt, u64_from_str_radix(arg.high), arg.now)]
    /\ UNCHANGED << arg, table, writer, clock, issued, pc, cmd, old_ent, unix_ms,
                    entry, reply, seen, did, obs, lastPub, hvars >>

NextExpire == \E build \in Builds : Resolve(build)

SpecExpire == InitExpire /\ [][NextExpire]_vars

\* A u64 as a number of five digits.
Widen(a) == a \o << 0 >>
WideProduct(t) == (LET wide(m) == m.v \o << m.carry >> IN wide(mul_digits(t, MsPerSec, 1, 0)))
WideSum(a, b) == add_digits(a, b, 1, 0).v

\* The timestamp the rules give, without a limit of width.
C18_Exact(opt, t, now) ==
    CASE opt = "EX" -> WideSum(Widen(now), WideProduct(t))
      [] opt = "PX" -> WideSum(Widen(now), Widen(t))
      [] opt = "EXAT" -> WideProduct(t)
      [] opt = "PXAT" -> Widen(t)

\* The command ran to its end and stored exactly the timestamp of the rules.
C18_Stored(e, opt, t, now) ==
    /\ e.r = "Ok"
    /\ Widen(e.v) = C18_Exact(opt, Unwrap(t), now)

\* C18: for every TTL the grammar accepts, 0 to 2^64-1, the timestamp stored
\* is now + 1000 s (EX), now + ms (PX), 1000 s (EXAT), ms (PXAT), without
\* wrap-around and without the command being aborted, and of two relative
\* TTLs the larger one never gives the earlier timestamp.
C18_ExactExpiration ==
    (res.kind = "resolved" /\ res.low /= None /\ res.high /= None) =>
        /\ C18_Stored(res.e_low, arg.opt, res.low, arg.now)
        /\ C18_Stored(res.e_high, arg.opt, res.high, arg.now)
        /\ (arg.opt \in RelativeKinds /\ less_than(Unwrap(res.low), Unwrap(res.high)))
            => ~less_than(res.e_high.v, res.e_low.v)

\* The connection holds the writer lock between its two refreshes.
Holds(c) == pc[c] = "pub_insert"

\* One holder at most, who is the connection at its second refresh; no lock
\* held by a command that has its return value, by an idle connection, or by
\* a connection that runs a GET.
C16_Lock ==
    /\ Cardinality({ c \in Conns : Holds(c) }) <= 1
    /\ \A c \in Conns :
        /\ writer = c <=> Holds(c)
        /\ pc[c] \in {"idle", "ret"} => writer /= c
        /\ cmd[c].name = "GET" => writer /= c

\* A GET is dispatched and returns in a state where another connection holds
\* the lock, and leaves the lock as it is.
C16_GetStep ==
    \A c \in Conns :
        (pc[c] = "idle" /\ cmd'[c].name = "GET") => (pc'[c] = "ret" /\ writer' = writer)

NxOnAbsent(c, k) ==
    /\ IsSet(c) /\ cmd[c].key = k /\ cmd[c].cond = Some("NX")
    /\ seen[c] = None
    /\ ~did[c].alone

\* C21: of the connections whose SET k v NX on an absent key overlap, one at
\* most writes and is answered OK; each of the others is answered null and
\* its value is not what a GET k returns.
C21_OneNxWins ==
    \A k \in Keys : \A c, d \in Conns :
        (c /= d /\ NxOnAbsent(c, k) /\ NxOnAbsent(d, k) /\ Returned(c) /\ Returned(d)) =>
            /\ ~(did[c].wrote /\ did[d].wrote)
            /\ \E l \in {c, d} :
                /\ ~did[l].wrote
                /\ reply[l] = Null
                /\ \A i \in 1..Len(table[k]) : table[k][i] /= entry[l]

====
